---- MODULE Spec2Model ----
(***************************************************************************)
(* Model of the account-creation faucet: the shared AtomicU64 nonce, the   *)
(* RwLock<CryptoHash> block-hash cell with its background updater, the     *)
(* startup sequence of main(), and send_create_account()'s retry loop run  *)
(* concurrently by several request handlers (the form and the json         *)
(* endpoint, with the responses they render) against a NEAR RPC node whose *)
(* answers are chosen nondeterministically, scripted, or decided by the    *)
(* ledger's nonce rule.  Nonces stay far below 2^64, except in the part    *)
(* that runs the counter at a scaled-down width over its whole range.      *)
(***************************************************************************)
EXTENDS Integers, Sequences, FiniteSets, TLC

\* ---------------------------------------------------------------- bounds
NumWorkflows == 2       \* concurrent requests to /create_account
MaxSeed == 1            \* largest access-key nonce the startup query returns
MaxAkNonce == 3         \* largest ak_nonce an InvalidNonce answer reports
MaxConflicts == 2       \* InvalidNonce answers the RPC node gives in total
NumHashes == 2          \* distinct block hashes the RPC node may return
MaxFetchFailures == 2   \* consecutive failed refreshes that are counted
NonceBits == 3          \* width of Nonce where its range matters, scaled down from 64

Workflows == 1..NumWorkflows
Seeds == 0..MaxSeed
AkNonces == 0..MaxAkNonce
Hashes == 1..NumHashes
NoHash == 0

VARIABLES
    main_pc,        \* position of main()
    nonce,          \* NearData.nonce, the shared AtomicU64
    block_hash,     \* NearData.block_hash, the RwLock<CryptoHash> cell
    updater_pc,     \* position of the update_block_hash task
    current,        \* its local current while it waits in write() (NoHash out of scope)
    pc,             \* pc[w]: position of request w
    endpoint,       \* endpoint[w]: the handler serving w, "form" or "json"
    account_ok,     \* account_ok[w]: AccountId::from_str(account_id) is Ok
    pkey_ok,        \* pkey_ok[w]: PublicKey::from_str(public_key) is Ok
    tx_block_hash,  \* the block_hash argument of send_create_account
    next_nonce,     \* the local next_nonce of send_create_account (0 out of scope)
    prev_nonce,     \* the local prev_nonce of retry_nonce (0 out of scope)
    tx_nonce,       \* tx_nonce of the InvalidNonce error in hand (0 out of scope)
    ak_nonce,       \* ak_nonce of the InvalidNonce error in hand (0 out of scope)
    result,         \* result[w]: the HTTP response of w's handler
    \* ---- history: never read by the program, only by the node's script,
    \* ---- the bound on its rejections and the properties
    issued,         \* issued[w]: values returned to w by fetch_add+1 / retry_nonce
    attempts,       \* attempts[w]: the transactions w sent
    outcomes,       \* outcomes[w]: the RPC node's answers to them
    last_ak,        \* last_ak[w]: the ak_nonce a scripted node last reported to w
    last_caller,    \* the request that last updated the counter
    last_good,      \* result of the most recent successful block-hash fetch
    read_good,      \* read_good[w]: last_good when w read the cell
    fetch_failures, \* consecutive failed refreshes (capped)
    seeded,         \* the access-key query of main() has succeeded
    primed,         \* the first block-hash fetch of main() has succeeded
    \* ---- the ledger behind the RPC node, when its rule is modelled
    ledger_ak,      \* nonce of the signer's access key on the ledger
    verdicts        \* verdicts[w]: the ledger's verdicts on w's transactions

shared == <<main_pc, nonce, block_hash, updater_pc, current>>
locals == <<pc, endpoint, account_ok, pkey_ok, tx_block_hash, next_nonce,
            prev_nonce, tx_nonce, ak_nonce, result>>
history == <<issued, attempts, outcomes, last_ak, last_caller, last_good,
             read_good, fetch_failures>>
startup == <<seeded, primed>>
ledger == <<ledger_ak, verdicts>>
vars == <<shared, locals, history, startup, ledger>>

Max(a, b) == IF a >= b THEN a ELSE b

RECURSIVE SumOver(_, _)
SumOver(f, S) ==
    IF S = {} THEN 0
    ELSE LET x == CHOOSE y \in S : TRUE IN f[x] + SumOver(f, S \ {x})

\* InvalidNonce answers request w got: all its answers but a final one
Conflicts(w) == Len(SelectSeq(outcomes[w], LAMBDA o : o = "nonce_conflict"))
TotalConflicts == SumOver([w \in Workflows |-> Conflicts(w)], Workflows)
Last(s) == s[Len(s)]

\* ------------------------------------------------------- the nonce cell
\* AtomicU64::fetch_add(d): the value stored
fetch_add_lost(n, d) == n
fetch_add(n, d) == n + d

\* new_nonce(nonce1, nonce2)
new_nonce_no_max(nonce1, nonce2) == nonce2 + 1
new_nonce_no_incr(nonce1, nonce2) == Max(nonce1, nonce2)
new_nonce(nonce1, nonce2) == Max(nonce1, nonce2) + 1

\* ------------------------------------------------- errors and responses
Endpoints == {"form", "json"}

\* an anyhow::Error: the message attached by with_context or anyhow!, and
\* the error underneath it
AccountIdError == [context |-> "failed parsing account ID", source |-> "ParseAccountError"]
PublicKeyError == [context |-> "failed parsing public key", source |-> "ParseKeyError"]
ExecutionError == [context |-> "transaction execution failed", source |-> "none"]
\* e.into(): the error itself, no message attached
Into(e) == [context |-> "none", source |-> e]

\* err.to_string(): the outermost message
to_string(err) == IF err.context # "none" THEN err.context ELSE err.source
\* format!("{:?}", err): the outermost message and the causes under it
DebugFormat(err) ==
    IF err.context # "none" /\ err.source # "none"
    THEN <<err.context, err.source>> ELSE <<to_string(err)>>

NoResponse == [status |-> "none", body |-> "none", message |-> <<>>]
\* Ok(_): form_success.html.tera, or the json result
OkResponse(ep) ==
    IF ep = "json"
    THEN [status |-> "Ok", body |-> "result", message |-> <<>>]
    ELSE [status |-> "Ok", body |-> "form_success", message |-> <<>>]
\* Err(err): form_fail.html.tera with error_message, or the json error
ErrResponse(ep, err) ==
    IF ep = "json"
    THEN [status |-> "InternalServerError", body |-> "error", message |-> <<to_string(err)>>]
    ELSE [status |-> "Ok", body |-> "form_fail", message |-> DebugFormat(err)]

Init ==
    /\ main_pc = "query_access_key"
    /\ nonce = 0
    /\ block_hash = NoHash
    /\ updater_pc = "not_spawned"
    /\ current = NoHash
    /\ pc = [w \in Workflows |-> "idle"]
    /\ endpoint = [w \in Workflows |-> "form"]
    /\ account_ok = [w \in Workflows |-> TRUE]
    /\ pkey_ok = [w \in Workflows |-> TRUE]
    /\ tx_block_hash = [w \in Workflows |-> NoHash]
    /\ next_nonce = [w \in Workflows |-> 0]
    /\ prev_nonce = [w \in Workflows |-> 0]
    /\ tx_nonce = [w \in Workflows |-> 0]
    /\ ak_nonce = [w \in Workflows |-> 0]
    /\ result = [w \in Workflows |-> NoResponse]
    /\ issued = [w \in Workflows |-> <<>>]
    /\ attempts = [w \in Workflows |-> <<>>]
    /\ outcomes = [w \in Workflows |-> <<>>]
    /\ last_ak = [w \in Workflows |-> -1]
    /\ last_caller = 0
    /\ last_good = NoHash
    /\ read_good = [w \in Workflows |-> NoHash]
    /\ fetch_failures = 0
    /\ seeded = FALSE
    /\ primed = FALSE
    /\ ledger_ak = 0
    /\ verdicts = [w \in Workflows |-> <<>>]

\* ------------------------------------------------------------- main()
\* the counter started at 0, the query's answer unused
SeedNonceZero(a) ==
    /\ main_pc = "query_access_key"
    /\ nonce' = 0
    /\ seeded' = TRUE
    /\ main_pc' = "fetch_block_hash"
    /\ UNCHANGED <<block_hash, updater_pc, current, locals, history, primed,
                   ledger>>

\* the ViewAccessKey query answers with the access key's nonce
SeedNonce(a) ==
    /\ main_pc = "query_access_key"
    /\ nonce' = a
    /\ seeded' = TRUE
    /\ main_pc' = "fetch_block_hash"
    /\ UNCHANGED <<block_hash, updater_pc, current, locals, history, primed,
                   ledger>>

\* the query fails or answers with another kind: anyhow::bail!
SeedNonceFail ==
    /\ main_pc = "query_access_key"
    /\ main_pc' = "aborted"
    /\ UNCHANGED <<nonce, block_hash, updater_pc, current, locals, history,
                   startup, ledger>>

\* current_block_hash(&rpc).await is Ok(h)
PrimeBlockHash(h) ==
    /\ main_pc = "fetch_block_hash"
    /\ block_hash' = h
    /\ last_good' = h
    /\ primed' = TRUE
    /\ main_pc' = "spawn_updater"
    /\ UNCHANGED <<nonce, updater_pc, current, locals, issued, attempts,
                   outcomes, last_ak, last_caller, read_good, fetch_failures,
                   seeded, ledger>>

\* the failed first fetch not stopping main()
PrimeBlockHashFailIgnored ==
    /\ main_pc = "fetch_block_hash"
    /\ main_pc' = "spawn_updater"
    /\ UNCHANGED <<nonce, block_hash, updater_pc, current, locals, history,
                   startup, ledger>>

\* ... is Err: .context("failed fetching latest block hash")?
PrimeBlockHashFail ==
    /\ main_pc = "fetch_block_hash"
    /\ main_pc' = "aborted"
    /\ UNCHANGED <<nonce, block_hash, updater_pc, current, locals, history,
                   startup, ledger>>

\* tokio::spawn(update_block_hash(..))
SpawnUpdater ==
    /\ main_pc = "spawn_updater"
    /\ updater_pc' = "sleeping"
    /\ main_pc' = "bind"
    /\ UNCHANGED <<nonce, block_hash, current, locals, history, startup,
                   ledger>>

\* HttpServer::new(..).bind(..)?.run()
BindServer ==
    /\ main_pc = "bind"
    /\ main_pc' = "serving"
    /\ UNCHANGED <<nonce, block_hash, updater_pc, current, locals, history,
                   startup, ledger>>

BindServerFail ==
    /\ main_pc = "bind"
    /\ main_pc' = "aborted"
    /\ UNCHANGED <<nonce, block_hash, updater_pc, current, locals, history,
                   startup, ledger>>

\* ------------------------------------------------- update_block_hash()
UpdaterRunning == updater_pc # "not_spawned" /\ main_pc # "aborted"

\* tokio::time::sleep(30 s) elapses, the status request is sent
UpdaterWake ==
    /\ UpdaterRunning
    /\ updater_pc = "sleeping"
    /\ updater_pc' = "fetching"
    /\ UNCHANGED <<main_pc, nonce, block_hash, current, locals, history,
                   startup, ledger>>

\* the RwLockReadGuard request w created is alive.  The form handler's guard
\* is a temporary of `let block_hash = *near.block_hash.read().unwrap();` and
\* dies with that statement; the json handler's is a temporary in an argument
\* of `let result = send_create_account(..).await;` and lives to the end of
\* that statement, through every await inside the call.
HoldsReadGuard(w) ==
    endpoint[w] = "json" /\ pc[w] \in {"parse", "awaiting", "retry_return"}
ReadLocked == \E w \in Workflows : HoldsReadGuard(w)

\* Ok(b): block_hash.write() is granted at once when no read guard is alive,
\* and *b = current; otherwise the task waits in write()
UpdaterFetchOk(h) ==
    /\ UpdaterRunning
    /\ updater_pc = "fetching"
    /\ last_good' = h
    /\ fetch_failures' = 0
    /\ IF ReadLocked
       THEN current' = h /\ updater_pc' = "write_blocked" /\ UNCHANGED block_hash
       ELSE block_hash' = h /\ updater_pc' = "sleeping" /\ UNCHANGED current
    /\ UNCHANGED <<main_pc, nonce, locals, issued, attempts, outcomes,
                   last_ak, last_caller, read_good, startup, ledger>>

\* the last read guard is dropped: write() returns, *b = current
UpdaterWriteGranted ==
    /\ UpdaterRunning
    /\ updater_pc = "write_blocked"
    /\ ~ReadLocked
    /\ block_hash' = current
    /\ current' = NoHash
    /\ updater_pc' = "sleeping"
    /\ UNCHANGED <<main_pc, nonce, locals, history, startup, ledger>>

\* the value the Err arm leaves in the cell
ErrArmHash(old) == old

\* the Err arm leaving the loop
UpdaterFetchErrBreak ==
    /\ UpdaterRunning
    /\ updater_pc = "fetching"
    /\ block_hash' = ErrArmHash(block_hash)
    /\ fetch_failures' = IF fetch_failures < MaxFetchFailures
                          THEN fetch_failures + 1 ELSE fetch_failures
    /\ updater_pc' = "stopped"
    /\ UNCHANGED <<main_pc, nonce, current, locals, issued, attempts,
                   outcomes, last_ak, last_caller, last_good, read_good,
                   startup, ledger>>

\* Err(e): warn and continue
UpdaterFetchErr ==
    /\ UpdaterRunning
    /\ updater_pc = "fetching"
    /\ block_hash' = ErrArmHash(block_hash)
    /\ fetch_failures' = IF fetch_failures < MaxFetchFailures
                          THEN fetch_failures + 1 ELSE fetch_failures
    /\ updater_pc' = "sleeping"
    /\ UNCHANGED <<main_pc, nonce, current, locals, issued, attempts,
                   outcomes, last_ak, last_caller, last_good, read_good,
                   startup, ledger>>

\* ------------------------------- create_account / account_create_handler
\* the handler of endpoint ep reads the cell and calls send_create_account
\* with the copy.  Whether read() is granted while the updater waits in
\* write() depends on the platform's lock; it is granted here.
HandlerCall(w, ep, a_ok, k_ok) ==
    /\ main_pc = "serving"
    /\ pc[w] = "idle"
    /\ endpoint' = [endpoint EXCEPT ![w] = ep]
    /\ account_ok' = [account_ok EXCEPT ![w] = a_ok]
    /\ pkey_ok' = [pkey_ok EXCEPT ![w] = k_ok]
    /\ tx_block_hash' = [tx_block_hash EXCEPT ![w] = block_hash]
    /\ read_good' = [read_good EXCEPT ![w] = last_good]
    /\ pc' = [pc EXCEPT ![w] = "parse"]
    /\ UNCHANGED <<shared, next_nonce, prev_nonce, tx_nonce, ak_nonce,
                   result, issued, attempts, outcomes, last_ak, last_caller,
                   last_good, fetch_failures, startup, ledger>>

\* ------------------------------------------------ send_create_account()
\* the parse checks placed after the fetch_add call
ParseFailAfterAllocate(w) ==
    /\ pc[w] = "parse"
    /\ ~(account_ok[w] /\ pkey_ok[w])
    /\ nonce' = nonce + 1
    /\ pc' = [pc EXCEPT ![w] = "failed"]
    /\ result' = [result EXCEPT ![w] =
          ErrResponse(endpoint[w], IF account_ok[w] THEN PublicKeyError
                                                    ELSE AccountIdError)]
    /\ UNCHANGED <<main_pc, block_hash, updater_pc, current, endpoint,
                   account_ok, pkey_ok, tx_block_hash, next_nonce, prev_nonce,
                   tx_nonce, ak_nonce, history, startup, ledger>>

\* AccountId::from_str(..)? or PublicKey::from_str(..)? returns the error,
\* the handler renders it
ParseFail(w) ==
    /\ pc[w] = "parse"
    /\ ~(account_ok[w] /\ pkey_ok[w])
    /\ pc' = [pc EXCEPT ![w] = "failed"]
    /\ result' = [result EXCEPT ![w] =
          ErrResponse(endpoint[w], IF account_ok[w] THEN PublicKeyError
                                                    ELSE AccountIdError)]
    /\ UNCHANGED <<shared, endpoint, account_ok, pkey_ok, tx_block_hash,
                   next_nonce, prev_nonce, tx_nonce, ak_nonce, history,
                   startup, ledger>>

\* the block hash put into the Transaction built at the top of the loop
TxBlockHash(w) == tx_block_hash[w]

\* top of the loop: build and sign the transaction with nonce n, send it in
\* a broadcast_tx_commit request
Send(w, n) ==
    attempts' = [attempts EXCEPT ![w] =
                    Append(@, [nonce |-> n, block_hash |-> TxBlockHash(w)])]

\* Allocate run on input that failed to parse
AllocateUnchecked(w) ==
    /\ pc[w] = "parse"
    /\ nonce' = fetch_add(nonce, 1)
    /\ next_nonce' = [next_nonce EXCEPT ![w] = nonce + 1]
    /\ issued' = [issued EXCEPT ![w] = <<nonce + 1>>]
    /\ last_caller' = w
    /\ Send(w, next_nonce'[w])
    /\ pc' = [pc EXCEPT ![w] = "awaiting"]
    /\ UNCHANGED <<main_pc, block_hash, updater_pc, current, endpoint,
                   account_ok, pkey_ok, tx_block_hash, prev_nonce, tx_nonce,
                   ak_nonce, result, outcomes, last_ak, last_good, read_good,
                   fetch_failures, startup, ledger>>

\* Allocate without the "+ 1" on the value fetch_add returns
AllocateOld(w) ==
    /\ pc[w] = "parse"
    /\ account_ok[w] /\ pkey_ok[w]
    /\ nonce' = fetch_add(nonce, 1)
    /\ next_nonce' = [next_nonce EXCEPT ![w] = nonce]
    /\ issued' = [issued EXCEPT ![w] = <<nonce>>]
    /\ last_caller' = w
    /\ Send(w, next_nonce'[w])
    /\ pc' = [pc EXCEPT ![w] = "awaiting"]
    /\ UNCHANGED <<main_pc, block_hash, updater_pc, current, endpoint,
                   account_ok, pkey_ok, tx_block_hash, prev_nonce, tx_nonce,
                   ak_nonce, result, outcomes, last_ak, last_good, read_good,
                   fetch_failures, startup, ledger>>

\* both parse: let mut next_nonce = nonce.fetch_add(1, SeqCst) + 1, then the
\* first pass of the loop up to the await of the RPC call
Allocate(w) ==
    /\ pc[w] = "parse"
    /\ account_ok[w] /\ pkey_ok[w]
    /\ nonce' = fetch_add(nonce, 1)
    /\ next_nonce' = [next_nonce EXCEPT ![w] = nonce + 1]
    /\ issued' = [issued EXCEPT ![w] = <<nonce + 1>>]
    /\ last_caller' = w
    /\ Send(w, next_nonce'[w])
    /\ pc' = [pc EXCEPT ![w] = "awaiting"]
    /\ UNCHANGED <<main_pc, block_hash, updater_pc, current, endpoint,
                   account_ok, pkey_ok, tx_block_hash, prev_nonce, tx_nonce,
                   ak_nonce, result, outcomes, last_ak, last_good, read_good,
                   fetch_failures, startup, ledger>>

\* Ok(r), r.status = SuccessValue(_): return Ok(()), the handler responds
RespSuccess(w) ==
    /\ pc[w] = "awaiting"
    /\ outcomes' = [outcomes EXCEPT ![w] = Append(@, "accepted")]
    /\ pc' = [pc EXCEPT ![w] = "done"]
    /\ next_nonce' = [next_nonce EXCEPT ![w] = 0]
    /\ ak_nonce' = [ak_nonce EXCEPT ![w] = 0]
    /\ result' = [result EXCEPT ![w] = OkResponse(endpoint[w])]
    /\ UNCHANGED <<shared, endpoint, account_ok, pkey_ok, tx_block_hash,
                   prev_nonce, tx_nonce, issued, attempts, last_ak,
                   last_caller, last_good, read_good, fetch_failures,
                   startup, ledger>>

\* retry_nonce computing from a load and storing nothing
RetryFetchUpdateNoStore(w, tx, ak) ==
    /\ pc[w] = "awaiting"
    /\ TotalConflicts < MaxConflicts
    /\ tx_nonce' = [tx_nonce EXCEPT ![w] = tx]
    /\ ak_nonce' = [ak_nonce EXCEPT ![w] = ak]
    /\ outcomes' = [outcomes EXCEPT ![w] = Append(@, "nonce_conflict")]
    /\ prev_nonce' = [prev_nonce EXCEPT ![w] = nonce]
    /\ last_caller' = w
    /\ pc' = [pc EXCEPT ![w] = "retry_return"]
    /\ UNCHANGED <<shared, endpoint, account_ok, pkey_ok, tx_block_hash,
                   next_nonce, result, issued, attempts, last_good,
                   read_good, fetch_failures, startup, ledger>>

\* retry_nonce leaving the counter alone when tx_nonce is not the nonce sent
RetryFetchUpdateOnMatch(w, tx, ak) ==
    /\ pc[w] = "awaiting"
    /\ TotalConflicts < MaxConflicts
    /\ tx_nonce' = [tx_nonce EXCEPT ![w] = tx]
    /\ ak_nonce' = [ak_nonce EXCEPT ![w] = ak]
    /\ outcomes' = [outcomes EXCEPT ![w] = Append(@, "nonce_conflict")]
    /\ prev_nonce' = [prev_nonce EXCEPT ![w] = nonce]
    /\ nonce' = IF tx = next_nonce[w] THEN new_nonce(nonce, ak) ELSE nonce
    /\ last_caller' = w
    /\ pc' = [pc EXCEPT ![w] = "retry_return"]
    /\ UNCHANGED <<main_pc, block_hash, updater_pc, current, endpoint,
                   account_ok, pkey_ok, tx_block_hash, next_nonce, result,
                   issued, attempts, last_good, read_good, fetch_failures,
                   startup, ledger>>

\* an InvalidNonce { tx_nonce, ak_nonce } answer: retry_nonce is called and
\* runs nonce.fetch_update(|n| Some(new_nonce(n, ak_nonce)))
RetryFetchUpdate(w, tx, ak) ==
    /\ pc[w] = "awaiting"
    /\ TotalConflicts < MaxConflicts
    /\ tx_nonce' = [tx_nonce EXCEPT ![w] = tx]
    /\ ak_nonce' = [ak_nonce EXCEPT ![w] = ak]
    /\ outcomes' = [outcomes EXCEPT ![w] = Append(@, "nonce_conflict")]
    /\ prev_nonce' = [prev_nonce EXCEPT ![w] = nonce]
    /\ nonce' = new_nonce(nonce, ak)
    /\ last_caller' = w
    /\ pc' = [pc EXCEPT ![w] = "retry_return"]
    /\ UNCHANGED <<main_pc, block_hash, updater_pc, current, endpoint,
                   account_ok, pkey_ok, tx_block_hash, next_nonce, result,
                   issued, attempts, last_good, read_good, fetch_failures,
                   startup, ledger>>

\* the status arm passing the two nonces to retry_nonce in the other order
RespInvalidNonceStatusSwapped(w, tx, ak) ==
    RetryFetchUpdate(w, ak, tx) /\ UNCHANGED last_ak

\* Ok(r), r.status = Failure(InvalidTxError(InvalidNonce {..}))
RespInvalidNonceStatus(w, tx, ak) ==
    RetryFetchUpdate(w, tx, ak) /\ UNCHANGED last_ak

\* the InvalidNonce error falling through to the Err(e) arm
RespInvalidNonceErrorSurfaced(w, tx, ak) ==
    /\ pc[w] = "awaiting"
    /\ TotalConflicts < MaxConflicts
    /\ outcomes' = [outcomes EXCEPT ![w] = Append(@, "nonce_conflict")]
    /\ pc' = [pc EXCEPT ![w] = "failed"]
    /\ next_nonce' = [next_nonce EXCEPT ![w] = 0]
    /\ ak_nonce' = [ak_nonce EXCEPT ![w] = 0]
    /\ result' = [result EXCEPT ![w] = ErrResponse(endpoint[w], Into("JsonRpcError"))]
    /\ UNCHANGED <<shared, endpoint, account_ok, pkey_ok, tx_block_hash,
                   prev_nonce, tx_nonce, issued, attempts, last_ak,
                   last_caller, last_good, read_good, fetch_failures,
                   startup, ledger>>

\* Err(ServerError(HandlerError(InvalidTransaction { InvalidNonce {..} })))
RespInvalidNonceError(w, tx, ak) ==
    RetryFetchUpdate(w, tx, ak) /\ UNCHANGED last_ak

\* retry_nonce's `if tx_nonce != old_nonce`, old_nonce being the caller's
\* next_nonce: the call in hand has logged its warning, and nothing else
Warned(w) == pc[w] = "retry_return" /\ tx_nonce[w] # next_nonce[w]

\* a scripted node rejects w's transaction with InvalidNonce, reporting an
\* ak_nonce above the one it reported to w before
ScriptReject(w, ak) ==
    /\ ak > last_ak[w]
    /\ last_ak' = [last_ak EXCEPT ![w] = ak]
    /\ RetryFetchUpdate(w, next_nonce[w], ak)

\* retry_nonce returning new_nonce of the counter as it is on return
RetryReturnReload(w) ==
    /\ pc[w] = "retry_return"
    /\ next_nonce' = [next_nonce EXCEPT ![w] = new_nonce(nonce, ak_nonce[w])]
    /\ issued' = [issued EXCEPT ![w] = Append(@, next_nonce'[w])]
    /\ prev_nonce' = [prev_nonce EXCEPT ![w] = 0]
    /\ tx_nonce' = [tx_nonce EXCEPT ![w] = 0]
    /\ ak_nonce' = [ak_nonce EXCEPT ![w] = 0]
    /\ Send(w, next_nonce'[w])
    /\ pc' = [pc EXCEPT ![w] = "awaiting"]
    /\ UNCHANGED <<shared, endpoint, account_ok, pkey_ok, tx_block_hash,
                   result, outcomes, last_ak, last_caller,
                   last_good, read_good, fetch_failures, startup, ledger>>

\* retry_nonce's return value dropped, next_nonce left as it was
RetryReturnDiscard(w) ==
    /\ pc[w] = "retry_return"
    /\ issued' = [issued EXCEPT ![w] = Append(@, new_nonce(prev_nonce[w], ak_nonce[w]))]
    /\ prev_nonce' = [prev_nonce EXCEPT ![w] = 0]
    /\ tx_nonce' = [tx_nonce EXCEPT ![w] = 0]
    /\ ak_nonce' = [ak_nonce EXCEPT ![w] = 0]
    /\ Send(w, next_nonce[w])
    /\ pc' = [pc EXCEPT ![w] = "awaiting"]
    /\ UNCHANGED <<shared, endpoint, account_ok, pkey_ok, tx_block_hash,
                   next_nonce, result, outcomes, last_ak,
                   last_caller, last_good, read_good, fetch_failures,
                   startup, ledger>>

\* the loop giving up on a request's second InvalidNonce answer
RetryReturnCapped(w) ==
    /\ pc[w] = "retry_return"
    /\ next_nonce' = [next_nonce EXCEPT ![w] =
          IF Len(issued[w]) >= 2 THEN 0 ELSE new_nonce(prev_nonce[w], ak_nonce[w])]
    /\ issued' = [issued EXCEPT ![w] = Append(@, new_nonce(prev_nonce[w], ak_nonce[w]))]
    /\ prev_nonce' = [prev_nonce EXCEPT ![w] = 0]
    /\ tx_nonce' = [tx_nonce EXCEPT ![w] = 0]
    /\ ak_nonce' = [ak_nonce EXCEPT ![w] = 0]
    /\ IF Len(issued[w]) >= 2
       THEN /\ pc' = [pc EXCEPT ![w] = "failed"]
            /\ result' = [result EXCEPT ![w] = ErrResponse(endpoint[w], ExecutionError)]
            /\ UNCHANGED attempts
       ELSE /\ pc' = [pc EXCEPT ![w] = "awaiting"]
            /\ Send(w, next_nonce'[w])
            /\ UNCHANGED result
    /\ UNCHANGED <<shared, endpoint, account_ok, pkey_ok, tx_block_hash,
                   outcomes, last_ak, last_caller, last_good,
                   read_good, fetch_failures, startup, ledger>>

\* retry_nonce returns new_nonce(prev_nonce, ak_nonce) into next_nonce, and
\* the next pass of the loop runs up to the await of the RPC call
RetryReturn(w) ==
    /\ pc[w] = "retry_return"
    /\ next_nonce' = [next_nonce EXCEPT ![w] = new_nonce(prev_nonce[w], ak_nonce[w])]
    /\ issued' = [issued EXCEPT ![w] = Append(@, next_nonce'[w])]
    /\ prev_nonce' = [prev_nonce EXCEPT ![w] = 0]
    /\ tx_nonce' = [tx_nonce EXCEPT ![w] = 0]
    /\ ak_nonce' = [ak_nonce EXCEPT ![w] = 0]
    /\ Send(w, next_nonce'[w])
    /\ pc' = [pc EXCEPT ![w] = "awaiting"]
    /\ UNCHANGED <<shared, endpoint, account_ok, pkey_ok, tx_block_hash,
                   result, outcomes, last_ak, last_caller,
                   last_good, read_good, fetch_failures, startup, ledger>>

\* the Err(e) arm giving the request's nonce back to the counter
RespRpcErrorRollback(w) ==
    /\ pc[w] = "awaiting"
    /\ nonce' = nonce - 1
    /\ outcomes' = [outcomes EXCEPT ![w] = Append(@, "rpc_error")]
    /\ pc' = [pc EXCEPT ![w] = "failed"]
    /\ next_nonce' = [next_nonce EXCEPT ![w] = 0]
    /\ ak_nonce' = [ak_nonce EXCEPT ![w] = 0]
    /\ result' = [result EXCEPT ![w] = ErrResponse(endpoint[w], Into("JsonRpcError"))]
    /\ UNCHANGED <<main_pc, block_hash, updater_pc, current, endpoint,
                   account_ok, pkey_ok, tx_block_hash, prev_nonce, tx_nonce,
                   issued, attempts, last_ak, last_caller, last_good,
                   read_good, fetch_failures, startup, ledger>>

\* the Err(e) arm going round the loop again
RespRpcErrorRetry(w) ==
    /\ pc[w] = "awaiting"
    /\ outcomes' = [outcomes EXCEPT ![w] = Append(@, "rpc_error")]
    /\ Send(w, next_nonce[w])
    /\ UNCHANGED <<shared, locals, issued, last_ak, last_caller, last_good,
                   read_good, fetch_failures, startup, ledger>>

\* the SuccessValue arm taking any other status too
RespExecFailureOk(w) ==
    /\ pc[w] = "awaiting"
    /\ outcomes' = [outcomes EXCEPT ![w] = Append(@, "exec_failure")]
    /\ pc' = [pc EXCEPT ![w] = "done"]
    /\ next_nonce' = [next_nonce EXCEPT ![w] = 0]
    /\ ak_nonce' = [ak_nonce EXCEPT ![w] = 0]
    /\ result' = [result EXCEPT ![w] = OkResponse(endpoint[w])]
    /\ UNCHANGED <<shared, endpoint, account_ok, pkey_ok, tx_block_hash,
                   prev_nonce, tx_nonce, issued, attempts, last_ak,
                   last_caller, last_good, read_good, fetch_failures,
                   startup, ledger>>

\* Ok(r) with any other status: return Err("transaction execution failed"),
\* the handler renders it
RespExecFailure(w) ==
    /\ pc[w] = "awaiting"
    /\ outcomes' = [outcomes EXCEPT ![w] = Append(@, "exec_failure")]
    /\ pc' = [pc EXCEPT ![w] = "failed"]
    /\ next_nonce' = [next_nonce EXCEPT ![w] = 0]
    /\ ak_nonce' = [ak_nonce EXCEPT ![w] = 0]
    /\ result' = [result EXCEPT ![w] = ErrResponse(endpoint[w], ExecutionError)]
    /\ UNCHANGED <<shared, endpoint, account_ok, pkey_ok, tx_block_hash,
                   prev_nonce, tx_nonce, issued, attempts, last_ak,
                   last_caller, last_good, read_good, fetch_failures,
                   startup, ledger>>

\* Err(e) of any other kind: return Err(e.into()), the handler renders it
RespRpcError(w) ==
    /\ pc[w] = "awaiting"
    /\ outcomes' = [outcomes EXCEPT ![w] = Append(@, "rpc_error")]
    /\ pc' = [pc EXCEPT ![w] = "failed"]
    /\ next_nonce' = [next_nonce EXCEPT ![w] = 0]
    /\ ak_nonce' = [ak_nonce EXCEPT ![w] = 0]
    /\ result' = [result EXCEPT ![w] = ErrResponse(endpoint[w], Into("JsonRpcError"))]
    /\ UNCHANGED <<shared, endpoint, account_ok, pkey_ok, tx_block_hash,
                   prev_nonce, tx_nonce, issued, attempts, last_ak,
                   last_caller, last_good, read_good, fetch_failures,
                   startup, ledger>>

\* ------------------------------------------------------------ the ledger
\* the access key has been used, up to nonce a, before main() queries it
AccessKeyUsed(a) ==
    /\ main_pc = "query_access_key"
    /\ ledger_ak < a
    /\ ledger_ak' = a
    /\ UNCHANGED <<shared, locals, history, startup, verdicts>>

\* the node runs w's transaction in flight: it is accepted iff its nonce is
\* above the access key's, which then takes that nonce; otherwise the verdict
\* is InvalidNonce { tx_nonce, ak_nonce } with the access key's nonce
LedgerProcess(w) ==
    /\ pc[w] = "awaiting"
    /\ Len(verdicts[w]) < Len(attempts[w])
    /\ LET n == Last(attempts[w]).nonce IN
         IF n > ledger_ak
         THEN /\ ledger_ak' = n
              /\ verdicts' = [verdicts EXCEPT ![w] =
                     Append(@, [accepted |-> TRUE, tx_nonce |-> n, ak_nonce |-> n])]
         ELSE /\ UNCHANGED ledger_ak
              /\ verdicts' = [verdicts EXCEPT ![w] =
                     Append(@, [accepted |-> FALSE, tx_nonce |-> n, ak_nonce |-> ledger_ak])]
    /\ UNCHANGED <<shared, locals, history, startup>>

\* the answer to w's transaction has been decided and not yet delivered
Decided(w) == pc[w] = "awaiting" /\ Len(verdicts[w]) = Len(attempts[w])

LedgerRespSuccess(w) ==
    /\ Decided(w)
    /\ Last(verdicts[w]).accepted
    /\ RespSuccess(w)

LedgerRespInvalidNonce(w) ==
    /\ Decided(w)
    /\ ~Last(verdicts[w]).accepted
    /\ RespInvalidNonceError(w, Last(verdicts[w]).tx_nonce, Last(verdicts[w]).ak_nonce)

\* the node runs, after the fact, the transaction of a request whose RPC
\* call failed before any answer: the verdict reaches nobody
LedgerProcessLate(w) ==
    /\ pc[w] = "failed"
    /\ Len(verdicts[w]) < Len(attempts[w])
    /\ LET n == Last(attempts[w]).nonce IN
         IF n > ledger_ak
         THEN /\ ledger_ak' = n
              /\ verdicts' = [verdicts EXCEPT ![w] =
                     Append(@, [accepted |-> TRUE, tx_nonce |-> n, ak_nonce |-> n])]
         ELSE /\ UNCHANGED ledger_ak
              /\ verdicts' = [verdicts EXCEPT ![w] =
                     Append(@, [accepted |-> FALSE, tx_nonce |-> n, ak_nonce |-> ledger_ak])]
    /\ UNCHANGED <<shared, locals, history, startup>>

\* the transaction passed the nonce check and its execution failed
LedgerRespExecFailure(w) ==
    /\ Decided(w)
    /\ Last(verdicts[w]).accepted
    /\ RespExecFailure(w)

\* a request arrives while no other is being served
HandlerCallAlone(w) ==
    /\ \A v \in Workflows : pc[v] \in {"idle", "done", "failed"}
    /\ HandlerCall(w, "form", TRUE, TRUE)

\* ------------------------------------------- the nonce cell, at its width
\* Nonce is u64: here NonceBits bits wide
U64Max == 2^NonceBits - 1
U64 == 0..U64Max

\* outcome of an arithmetic operation that panicked
Panic == -1

\* AtomicU64::fetch_add wraps around on overflow
wrapping_add(n, d) == (n + d) % (U64Max + 1)

\* `a + b` on u64: on overflow it panics in a build with overflow checks and
\* wraps around in one without
checked_or_wrapping_add(a, b) ==
    IF a + b <= U64Max THEN {a + b} ELSE {Panic, wrapping_add(a, b)}

\* new_nonce: std::cmp::max(nonce1, nonce2) + 1
new_nonce_u64(nonce1, nonce2) == checked_or_wrapping_add(Max(nonce1, nonce2), 1)

\* nonce.fetch_add(1, SeqCst) + 1 and the first pass of the loop
AllocateU64(w) ==
    /\ pc[w] = "parse"
    /\ account_ok[w] /\ pkey_ok[w]
    /\ nonce' = wrapping_add(nonce, 1)
    /\ last_caller' = w
    /\ \E r \in checked_or_wrapping_add(nonce, 1) :
          IF r = Panic
          THEN /\ pc' = [pc EXCEPT ![w] = "panicked"]
               /\ UNCHANGED <<next_nonce, issued, attempts>>
          ELSE /\ next_nonce' = [next_nonce EXCEPT ![w] = r]
               /\ issued' = [issued EXCEPT ![w] = <<r>>]
               /\ Send(w, r)
               /\ pc' = [pc EXCEPT ![w] = "awaiting"]
    /\ UNCHANGED <<main_pc, block_hash, updater_pc, current, endpoint,
                   account_ok, pkey_ok, tx_block_hash, prev_nonce, tx_nonce,
                   ak_nonce, result, outcomes, last_ak, last_good, read_good,
                   fetch_failures, startup, ledger>>

\* an InvalidNonce answer: retry_nonce runs fetch_update with new_nonce in
\* its closure; a panic in the closure leaves the counter as it was
RetryFetchUpdateU64(w, tx, ak) ==
    /\ pc[w] = "awaiting"
    /\ TotalConflicts < MaxConflicts
    /\ tx_nonce' = [tx_nonce EXCEPT ![w] = tx]
    /\ ak_nonce' = [ak_nonce EXCEPT ![w] = ak]
    /\ outcomes' = [outcomes EXCEPT ![w] = Append(@, "nonce_conflict")]
    /\ \E r \in new_nonce_u64(nonce, ak) :
          IF r = Panic
          THEN /\ pc' = [pc EXCEPT ![w] = "panicked"]
               /\ UNCHANGED <<nonce, prev_nonce, last_caller>>
          ELSE /\ nonce' = r
               /\ prev_nonce' = [prev_nonce EXCEPT ![w] = nonce]
               /\ last_caller' = w
               /\ pc' = [pc EXCEPT ![w] = "retry_return"]
    /\ UNCHANGED <<main_pc, block_hash, updater_pc, current, endpoint,
                   account_ok, pkey_ok, tx_block_hash, next_nonce, result,
                   issued, attempts, last_ak, last_good, read_good,
                   fetch_failures, startup, ledger>>

\* retry_nonce returns new_nonce(prev_nonce, ak_nonce): the closure has
\* computed it from the same operands without panicking, so where it
\* overflows the build is one that wraps around
RetryReturnU64(w) ==
    /\ pc[w] = "retry_return"
    /\ next_nonce' = [next_nonce EXCEPT ![w] =
          wrapping_add(Max(prev_nonce[w], ak_nonce[w]), 1)]
    /\ issued' = [issued EXCEPT ![w] = Append(@, next_nonce'[w])]
    /\ prev_nonce' = [prev_nonce EXCEPT ![w] = 0]
    /\ tx_nonce' = [tx_nonce EXCEPT ![w] = 0]
    /\ ak_nonce' = [ak_nonce EXCEPT ![w] = 0]
    /\ Send(w, next_nonce'[w])
    /\ pc' = [pc EXCEPT ![w] = "awaiting"]
    /\ UNCHANGED <<shared, endpoint, account_ok, pkey_ok, tx_block_hash,
                   result, outcomes, last_ak, last_caller, last_good,
                   read_good, fetch_failures, startup, ledger>>

\* ------------------------------------------------------ specifications
\* The nonce side: startup and concurrent requests, the node answering each
\* transaction in any way; the updater stays in its 30 s sleep.
NextNonce ==
    \/ \E a \in Seeds : SeedNonce(a)
    \/ SeedNonceFail
    \/ PrimeBlockHash(NumHashes)
    \/ PrimeBlockHashFail
    \/ SpawnUpdater
    \/ BindServer
    \/ BindServerFail
    \/ \E w \in Workflows, a_ok \in BOOLEAN, k_ok \in BOOLEAN :
          HandlerCall(w, "form", a_ok, k_ok)
    \/ \E w \in Workflows : ParseFail(w)
    \/ \E w \in Workflows : Allocate(w)
    \/ \E w \in Workflows : RespSuccess(w)
    \/ \E w \in Workflows, ak \in AkNonces :
          RespInvalidNonceStatus(w, next_nonce[w], ak)
    \/ \E w \in Workflows, ak \in AkNonces :
          RespInvalidNonceError(w, next_nonce[w], ak)
    \/ \E w \in Workflows : RetryReturn(w)
    \/ \E w \in Workflows : RespExecFailure(w)
    \/ \E w \in Workflows : RespRpcError(w)

SpecNonce == Init /\ [][NextNonce]_vars

\* Concurrent well-formed requests against a scripted node: it rejects a
\* request's transactions with InvalidNonce, reporting strictly increasing
\* ak_nonce values, and then accepts one.
NextScript ==
    \/ \E a \in Seeds : SeedNonce(a)
    \/ PrimeBlockHash(NumHashes)
    \/ SpawnUpdater
    \/ BindServer
    \/ \E w \in Workflows : HandlerCall(w, "form", TRUE, TRUE)
    \/ \E w \in Workflows : Allocate(w)
    \/ \E w \in Workflows, ak \in AkNonces : ScriptReject(w, ak)
    \/ \E w \in Workflows : RetryReturn(w)
    \/ \E w \in Workflows : RespSuccess(w)

SpecScript == Init /\ [][NextScript]_vars

\* The block-hash side: startup, the updater, and one well-formed request to
\* either endpoint that the node answers in any way, reporting one ak_nonce.
NextCache ==
    \/ SeedNonce(0)
    \/ SeedNonceFail
    \/ \E h \in Hashes : PrimeBlockHash(h)
    \/ PrimeBlockHashFail
    \/ SpawnUpdater
    \/ BindServer
    \/ BindServerFail
    \/ UpdaterWake
    \/ \E h \in Hashes : UpdaterFetchOk(h)
    \/ UpdaterWriteGranted
    \/ UpdaterFetchErr
    \/ \E ep \in Endpoints : HandlerCall(1, ep, TRUE, TRUE)
    \/ Allocate(1)
    \/ RespSuccess(1)
    \/ RespInvalidNonceStatus(1, next_nonce[1], MaxAkNonce)
    \/ RespInvalidNonceError(1, next_nonce[1], MaxAkNonce)
    \/ RetryReturn(1)
    \/ RespExecFailure(1)
    \/ RespRpcError(1)

SpecCache == Init /\ [][NextCache]_vars

\* Concurrent well-formed requests against a node that answers every
\* transaction with InvalidNonce, in either shape, reporting as tx_nonce the
\* transaction's nonce or another value; the counter starts from 0.
NextReject ==
    \/ SeedNonce(0)
    \/ PrimeBlockHash(NumHashes)
    \/ SpawnUpdater
    \/ BindServer
    \/ \E w \in Workflows : HandlerCall(w, "form", TRUE, TRUE)
    \/ \E w \in Workflows : Allocate(w)
    \/ \E w \in Workflows, ak \in AkNonces :
          \E t \in {next_nonce[w], ak} : RespInvalidNonceStatus(w, t, ak)
    \/ \E w \in Workflows, ak \in AkNonces :
          \E t \in {next_nonce[w], ak} : RespInvalidNonceError(w, t, ak)
    \/ \E w \in Workflows : RetryReturn(w)

SpecReject == Init /\ [][NextReject]_vars

\* Concurrent requests, well-formed or not, against a node that never answers
\* InvalidNonce: every request makes its fetch_add call and no retry_nonce
\* call is made.
NextAllocate ==
    \/ \E a \in Seeds : SeedNonce(a)
    \/ PrimeBlockHash(NumHashes)
    \/ SpawnUpdater
    \/ BindServer
    \/ \E w \in Workflows, a_ok \in BOOLEAN, k_ok \in BOOLEAN :
          HandlerCall(w, "form", a_ok, k_ok)
    \/ \E w \in Workflows : ParseFail(w)
    \/ \E w \in Workflows : Allocate(w)
    \/ \E w \in Workflows : RespSuccess(w)
    \/ \E w \in Workflows : RespExecFailure(w)
    \/ \E w \in Workflows : RespRpcError(w)

SpecAllocate == Init /\ [][NextAllocate]_vars

\* Concurrent well-formed requests against a node that follows the ledger's
\* nonce rule, nothing else using the access key; the startup query returns
\* the access key's nonce.  Every request that has entered
\* send_create_account keeps being scheduled, and the node keeps answering.
WorkflowStep(w) ==
    \/ Allocate(w)
    \/ LedgerProcess(w)
    \/ LedgerRespSuccess(w)
    \/ LedgerRespInvalidNonce(w)
    \/ RetryReturn(w)

NextLedger ==
    \/ \E a \in Seeds : AccessKeyUsed(a)
    \/ SeedNonce(ledger_ak)
    \/ PrimeBlockHash(NumHashes)
    \/ SpawnUpdater
    \/ BindServer
    \/ \E w \in Workflows : HandlerCall(w, "form", TRUE, TRUE)
    \/ \E w \in Workflows : Allocate(w)
    \/ \E w \in Workflows : LedgerProcess(w)
    \/ \E w \in Workflows : LedgerRespSuccess(w)
    \/ \E w \in Workflows : LedgerRespInvalidNonce(w)
    \/ \E w \in Workflows : RetryReturn(w)

SpecLedger ==
    Init /\ [][NextLedger]_vars /\ \A w \in Workflows : WF_vars(WorkflowStep(w))

TypeOK ==
    /\ nonce \in Nat
    /\ block_hash \in Hashes \cup {NoHash}
    /\ \A w \in Workflows : Len(attempts[w]) <= MaxConflicts + 1

\* Well-formed requests served one at a time against a node that follows the
\* ledger's nonce rule, nothing else using the access key after startup; the
\* startup query returns the access key's nonce.  A request ends in success,
\* in a failed execution, or in a failure of the RPC call, which may come
\* before the node has run the transaction.
NextSequential ==
    \/ \E a \in AkNonces : AccessKeyUsed(a)
    \/ SeedNonce(ledger_ak)
    \/ PrimeBlockHash(NumHashes)
    \/ SpawnUpdater
    \/ BindServer
    \/ \E w \in Workflows : HandlerCallAlone(w)
    \/ \E w \in Workflows : Allocate(w)
    \/ \E w \in Workflows : LedgerProcess(w)
    \/ \E w \in Workflows : LedgerProcessLate(w)
    \/ \E w \in Workflows : LedgerRespSuccess(w)
    \/ \E w \in Workflows : LedgerRespExecFailure(w)
    \/ \E w \in Workflows : RespRpcError(w)

SpecSequential == Init /\ [][NextSequential]_vars

\* The counter over the whole range of Nonce: one well-formed request, the
\* access key's nonce at startup and the ak_nonce of every InvalidNonce
\* answer being any value of the type.
NextU64 ==
    \/ \E a \in U64 : SeedNonce(a)
    \/ PrimeBlockHash(NumHashes)
    \/ SpawnUpdater
    \/ BindServer
    \/ HandlerCall(1, "form", TRUE, TRUE)
    \/ AllocateU64(1)
    \/ \E ak \in U64 : RetryFetchUpdateU64(1, next_nonce[1], ak)
    \/ RetryReturnU64(1)
    \/ RespSuccess(1)

SpecU64 == Init /\ [][NextU64]_vars

\* ---------------------------------------------------------- properties
Allocated(w) == Len(issued[w]) >= 1
Reconciled(w) == Len(issued[w]) >= 2
Slots == {<<w, i>> \in Workflows \X (1..(MaxConflicts + 1)) : i <= Len(issued[w])}

\* steps of request w, told by its position
AllocateStep(w) == pc[w] = "parse" /\ pc'[w] = "awaiting"
UpdateStep(w) == pc[w] = "awaiting" /\ pc'[w] = "retry_return"
ReturnStep(w) == pc[w] = "retry_return" /\ pc'[w] = "awaiting"
SendStep(w) == Len(attempts'[w]) = Len(attempts[w]) + 1

\* C1: the values fetch_add(1) + 1 returned to different requests are
\* pairwise distinct, whatever the interleaving.
C1_AllocateUnique ==
    \A w1, w2 \in Workflows :
        (w1 # w2 /\ Allocated(w1) /\ Allocated(w2)) => issued[w1][1] # issued[w2][1]

\* every request has allocated and waits for the answer to its first transaction
C1_Witness ==
    \A w \in Workflows : pc[w] = "awaiting" /\ Len(issued[w]) = 1 /\ outcomes[w] = <<>>

\* C2: no two calls of fetch_add(1) + 1 and retry_nonce, of either kind and by
\* any requests, return the same nonce.
C2_IssuedUnique ==
    \A s1, s2 \in Slots : s1 # s2 => issued[s1[1]][s1[2]] # issued[s2[1]][s2[2]]

\* two requests rejected with the same ak_nonce, above the counter, are
\* inside retry_nonce at the same time
C2_Witness ==
    \E w1, w2 \in Workflows :
        /\ w1 # w2
        /\ pc[w1] = "retry_return" /\ pc[w2] = "retry_return"
        /\ ak_nonce[w1] = ak_nonce[w2]
        /\ prev_nonce[w1] < ak_nonce[w1]

\* C3: retry_nonce's update sets the counter to max(current, ak_nonce) + 1,
\* current being the counter at that instant, and retry_nonce returns exactly
\* the value that update stored, whatever ran in between.
C3_ReconcileExact ==
    [][\A w \in Workflows :
          /\ UpdateStep(w) =>
                nonce' = (IF nonce >= ak_nonce'[w] THEN nonce ELSE ak_nonce'[w]) + 1
          /\ ReturnStep(w) =>
                next_nonce'[w] = (IF prev_nonce[w] >= ak_nonce[w]
                                  THEN prev_nonce[w] ELSE ak_nonce[w]) + 1
      ]_vars

\* a request is between retry_nonce's update and its return, and another
\* request has moved the counter since
C3_Witness ==
    \E w \in Workflows :
        /\ pc[w] = "retry_return"
        /\ prev_nonce[w] < ak_nonce[w]
        /\ last_caller # w
        /\ nonce > ak_nonce[w] + 1

\* C4: right after each retry_nonce update the counter is >= ak_nonce + 1, and
\* no step ever lowers the counter.
C4_ReconcileMonotone ==
    [][/\ nonce' >= nonce
       /\ \A w \in Workflows : UpdateStep(w) => nonce' >= ak_nonce'[w] + 1
      ]_vars

\* a request is in its second retry_nonce, this one against an ak_nonce
\* below what the counter already was
C4_Witness ==
    \E w \in Workflows :
        pc[w] = "retry_return" /\ Len(issued[w]) = 2 /\ ak_nonce[w] < prev_nonce[w]

\* C5: once a request whose last nonce r came from retry_nonce has succeeded,
\* fetch_add(1) + 1 in another request returns more than r, and r + 1 when
\* nothing touched the counter in between.
C5_AllocateAfterReconcile ==
    [][\A v, w \in Workflows :
          (AllocateStep(v) /\ v # w /\ pc[w] = "done" /\ Reconciled(w)) =>
              /\ next_nonce'[v] > Last(issued[w])
              /\ (last_caller = w => next_nonce'[v] = Last(issued[w]) + 1)
      ]_vars

\* the spec's scenario, scaled: seed 1, allocate 2, rejected with ak_nonce 3,
\* retry_nonce 4, accepted; the next request is allocated 5
C5_Witness ==
    \E v, w \in Workflows :
        /\ v # w
        /\ pc[w] = "done" /\ issued[w] = <<2, 4>>
        /\ issued[v] = <<5>>

\* C6: against a node scripted to reject K times with InvalidNonce, the
\* reported ak_nonce strictly increasing, and then to accept, a request is
\* done after exactly K + 1 transactions, each carrying a nonce >= the one
\* rejected before it.
C6_RetryConvergence ==
    \A w \in Workflows :
        pc[w] = "done" =>
            /\ Len(attempts[w]) = Conflicts(w) + 1
            /\ \A i \in 2..Len(attempts[w]) :
                   attempts[w][i].nonce >= attempts[w][i - 1].nonce

C6_Witness ==
    \E w \in Workflows :
        pc[w] = "done" /\ last_ak[w] >= 1 /\ Conflicts(w) = MaxConflicts
            /\ Len(attempts[w]) = MaxConflicts + 1

\* C7: an answer that is neither success nor InvalidNonce fails the request
\* at once and no transaction is sent after it.
C7_FatalShortCircuit ==
    \A w \in Workflows :
        (outcomes[w] # <<>> /\ Last(outcomes[w]) \in {"exec_failure", "rpc_error"}) =>
            /\ pc[w] = "failed"
            /\ Len(attempts[w]) = Len(outcomes[w])

\* one request failed on its first transaction, another on a retry
C7_Witness ==
    \E w1, w2 \in Workflows :
        /\ outcomes[w1] = <<"exec_failure">> /\ Len(attempts[w1]) = 1
        /\ outcomes[w2] = <<"nonce_conflict", "rpc_error">>

\* C8: a request whose account id or public key does not parse fails at once
\* without any call to the RPC node.
C8_ValidationShortCircuit ==
    \A w \in Workflows :
        (pc[w] \notin {"idle", "parse"} /\ ~(account_ok[w] /\ pkey_ok[w])) =>
            /\ pc[w] = "failed"
            /\ attempts[w] = <<>>
            /\ outcomes[w] = <<>>

C8_Witness ==
    \E w \in Workflows : pc[w] = "failed" /\ account_ok[w] /\ ~pkey_ok[w]

\* C9: every transaction sent on a retry carries the block hash that is in the
\* cell when it is sent.
C9_RetryRereadsBlockHash ==
    [][\A w \in Workflows :
          (SendStep(w) /\ attempts[w] # <<>>) =>
              Last(attempts'[w]).block_hash = block_hash
      ]_vars

\* C10: the cell always holds the result of the most recent successful fetch,
\* failed fetches change nothing, and every read returns that value.
C10_CacheKeepsLastGood ==
    /\ block_hash = last_good
    /\ \A w \in Workflows :
          pc[w] # "idle" => tx_block_hash[w] = read_good[w] /\ tx_block_hash[w] \in Hashes

\* steps of the updater, told by its position and the failure count
FetchErrStep == updater_pc = "fetching" /\ updater_pc' # "fetching" /\ fetch_failures' > 0
FetchOkStep == updater_pc = "fetching" /\ updater_pc' # "fetching" /\ fetch_failures' = 0

\* C11: a failed fetch sends the updater back to its sleep, never out of the
\* loop, and the result of a successful fetch that follows failed ones is
\* written to the cell, at once or when write() is granted.
C11_RefreshSurvivesErrors ==
    [][/\ FetchErrStep => updater_pc' = "sleeping"
       /\ (FetchOkStep /\ fetch_failures > 0) =>
              \/ updater_pc' = "sleeping" /\ block_hash' = last_good'
              \/ updater_pc' = "write_blocked" /\ current' = last_good'
       /\ (updater_pc = "write_blocked" /\ updater_pc' # "write_blocked") =>
              updater_pc' = "sleeping" /\ block_hash' = current
      ]_vars

\* after a failed fetch the updater has slept and sent the next request
C11_Witness ==
    fetch_failures >= 1 /\ updater_pc = "fetching"

\* C12: no request holds a guard of the block-hash lock while its RPC call is
\* outstanding, and the updater never waits in write() for a request to finish.
C12_NoLockAcrossRpc ==
    /\ \A w \in Workflows : pc[w] = "awaiting" => ~HoldsReadGuard(w)
    /\ updater_pc # "write_blocked"

\* C13: the server runs, the updater is spawned and requests are handled only
\* after both the access-key query and the first block-hash fetch succeeded;
\* when either failed main() has returned the error, for good.
C13_StartupBeforeServing ==
    [][/\ (main_pc' = "serving" \/ updater_pc' # "not_spawned"
              \/ \E w \in Workflows : pc'[w] # "idle") => (seeded' /\ primed')
       /\ ~(seeded' /\ primed') =>
              main_pc' \in {"query_access_key", "fetch_block_hash", "aborted"}
       /\ main_pc = "aborted" => (main_pc' = "aborted" /\ pc' = pc)
      ]_vars

\* main() returned the error of the first block-hash fetch
C13_Witness ==
    main_pc = "aborted" /\ seeded /\ ~primed /\ updater_pc = "not_spawned"

Succeeded(w) == result[w].body \in {"form_success", "result"}
Failed(w) == result[w].body \in {"form_fail", "error"}

\* C14: a request is answered with a failure only when its input did not parse
\* or its last answer was neither success nor InvalidNonce; every InvalidNonce
\* answer is followed by retry_nonce and one more transaction.
C14_ConflictNotSurfaced ==
    \A w \in Workflows :
        /\ pc[w] \in {"idle", "parse", "awaiting", "retry_return"} => result[w] = NoResponse
        /\ Failed(w) =>
              \/ outcomes[w] = <<>> /\ ~(account_ok[w] /\ pkey_ok[w])
              \/ outcomes[w] # <<>> /\ Last(outcomes[w]) \in {"exec_failure", "rpc_error"}
        /\ \A i \in 1..Len(outcomes[w]) :
              outcomes[w][i] = "nonce_conflict" =>
                  \/ Len(issued[w]) > i /\ Len(attempts[w]) > i
                  \/ i = Len(outcomes[w]) /\ pc[w] = "retry_return"

\* a request rejected with InvalidNonce went on and was answered with success
C14_Witness ==
    \E w \in Workflows :
        pc[w] = "done" /\ Conflicts(w) >= 1 /\ result[w] = OkResponse("form")

\* C15: an InvalidNonce answer has the same effect in both of its shapes: from
\* the same state and with the same tx_nonce and ak_nonce, the status arm and
\* the error arm make the same step, the counter becoming
\* new_nonce(counter, ak_nonce) and retry_nonce holding the same two values
\* its return value is computed from.
C15_BothShapesAlike ==
    [][\A w \in Workflows :
          UpdateStep(w) =>
              \A ak \in AkNonces : \A t \in {next_nonce[w], ak} :
                  /\ RespInvalidNonceStatus(w, t, ak) <=> RespInvalidNonceError(w, t, ak)
                  /\ RespInvalidNonceStatus(w, t, ak) =>
                        /\ nonce' = new_nonce(nonce, ak)
                        /\ prev_nonce'[w] = nonce
                        /\ ak_nonce'[w] = ak
      ]_vars

\* a first InvalidNonce answer reporting an ak_nonce equal to the counter
C15_Witness ==
    \E w \in Workflows :
        pc[w] = "retry_return" /\ Len(issued[w]) = 1 /\ ak_nonce[w] = prev_nonce[w]
            /\ ak_nonce[w] > issued[w][1]

\* C16: a request is answered with success exactly when the last answer to
\* its transactions was SuccessValue; it has then sent nothing after that
\* transaction, and no request ever has two accepted transactions.
C16_SuccessIffAccepted ==
    \A w \in Workflows :
        /\ Succeeded(w) <=> (outcomes[w] # <<>> /\ Last(outcomes[w]) = "accepted")
        /\ Succeeded(w) => (pc[w] = "done" /\ Len(attempts[w]) = Len(outcomes[w]))
        /\ Cardinality({i \in 1..Len(outcomes[w]) : outcomes[w][i] = "accepted"}) <= 1

\* a request answered with success on its second transaction
C16_Witness ==
    \E w \in Workflows :
        Succeeded(w) /\ outcomes[w] = <<"nonce_conflict", "accepted">>

\* C17: when the RPC call failed with an error other than InvalidNonce, the
\* failure reason in the response is not that error itself.
C17_NoRawTransportError ==
    \A w \in Workflows :
        (outcomes[w] # <<>> /\ Last(outcomes[w]) = "rpc_error") =>
            /\ Failed(w)
            /\ \A i \in 1..Len(result[w].message) : result[w].message[i] # "JsonRpcError"

\* C18: against a node following the ledger's nonce rule, with nothing else
\* using the access key and every request kept scheduled, each request that
\* entered send_create_account is eventually done.
C18_EventuallyDone ==
    \A w \in Workflows : (pc[w] = "parse") ~> (pc[w] = "done")

\* every request is done, one of them after an InvalidNonce verdict
C18_Witness ==
    /\ \A w \in Workflows : pc[w] = "done"
    /\ \E w \in Workflows : Len(verdicts[w]) >= 2 /\ ~verdicts[w][1].accepted

\* C19: against a node that answers every transaction with InvalidNonce a
\* request is never done and never failed, and after each of the K answers it
\* got it has sent one more transaction, K + 1 in all.
C19_NoRetryCap ==
    \A w \in Workflows :
        /\ pc[w] \notin {"done", "failed"}
        /\ result[w] = NoResponse
        /\ pc[w] = "awaiting" => Len(attempts[w]) = Conflicts(w) + 1
        /\ pc[w] = "retry_return" => Len(attempts[w]) = Conflicts(w)

\* a request has sent one more transaction after every answer the node gives
C19_Witness ==
    \E w \in Workflows :
        pc[w] = "awaiting" /\ Conflicts(w) = MaxConflicts
            /\ Len(attempts[w]) = MaxConflicts + 1 /\ result[w] = NoResponse

AttemptSlots ==
    {<<w, i>> \in Workflows \X (1..(MaxConflicts + 1)) : i <= Len(attempts[w])}

\* C20: no two transactions sent, by any requests and on any passes of the
\* loop, carry the same nonce.
C20_AttemptNoncesUnique ==
    \A s1, s2 \in AttemptSlots :
        s1 # s2 => attempts[s1[1]][s1[2]].nonce # attempts[s2[1]][s2[2]].nonce

\* every request has sent a second transaction
C20_Witness ==
    \A w \in Workflows : Len(attempts[w]) >= 2

\* C21: the transaction of every pass of the loop carries the value just
\* returned into next_nonce, on a retry the one retry_nonce returned after the
\* rejection before it, and that value is above the nonces of all the
\* transactions the request sent before.
C21_RetryNonceFresh ==
    \A w \in Workflows :
        /\ Len(attempts[w]) <= Len(issued[w])
        /\ \A i \in 1..Len(attempts[w]) : attempts[w][i].nonce = issued[w][i]
        /\ \A i, j \in 1..Len(attempts[w]) :
              i < j => attempts[w][i].nonce < attempts[w][j].nonce

\* a request on its third transaction, the last rejection having reported an
\* ak_nonce at or above the nonce it had sent
C21_Witness ==
    \E w \in Workflows :
        /\ Len(attempts[w]) = 3
        /\ pc[w] = "awaiting"
        /\ attempts[w][3].nonce > attempts[w][2].nonce + 1

\* C22: what retry_nonce stores in the counter and what it returns are
\* functions of the counter it read and of ak_nonce alone: the same for every
\* tx_nonce the answer reports and every next_nonce of the caller, whether
\* the two agree or the warning is logged.
C22_RetryIgnoresTxNonce ==
    [][\A w \in Workflows :
          /\ UpdateStep(w) =>
                \A ak \in AkNonces : \A tx \in {next_nonce[w], ak} :
                    (tx_nonce'[w] = tx /\ ak_nonce'[w] = ak) =>
                        /\ nonce' = new_nonce(nonce, ak)
                        /\ prev_nonce'[w] = nonce
                        /\ next_nonce'[w] = next_nonce[w]
          /\ ReturnStep(w) =>
                /\ next_nonce'[w] = new_nonce(prev_nonce[w], ak_nonce[w])
                /\ nonce' = nonce]_vars

\* two calls of retry_nonce in hand, both having stored and neither having
\* returned, with the same ak_nonce, one having logged the warning and the
\* other not
C22_Witness ==
    \E v, w \in Workflows :
        /\ pc[v] = "retry_return" /\ pc[w] = "retry_return"
        /\ Warned(v) /\ ~Warned(w)
        /\ ak_nonce[v] = ak_nonce[w]

\* requests that have made their fetch_add call
Allocators == {w \in Workflows : issued[w] # <<>>}

\* C23: fetch_add loses no update.  With no retry_nonce call made, every
\* step from the seeding on leaves the counter minus the number of requests
\* that have made their fetch_add call as it was, so the counter is the seed
\* plus that number; the values returned are exactly the numbers from the
\* seed + 1 up to the counter; and no request makes the call twice.
C23_AllocateLosesNoUpdate ==
    [][seeded =>
          /\ nonce' - Cardinality(Allocators') = nonce - Cardinality(Allocators)
          /\ {issued'[w][1] : w \in Allocators'} =
                (nonce' - Cardinality(Allocators') + 1)..nonce'
          /\ \A w \in Workflows :
                /\ Len(issued'[w]) <= 1
                /\ AllocateStep(w) => issued[w] = <<>>
                /\ pc'[w] \in {"awaiting", "done"} => w \in Allocators'
      ]_vars

\* every request has made its fetch_add call and has finished, none having
\* been answered InvalidNonce
C23_Witness ==
    /\ TotalConflicts = 0
    /\ \A w \in Workflows : pc[w] \in {"done", "failed"} /\ Len(issued[w]) = 1
    /\ \E w \in Workflows : nonce = issued[w][1]

ParseFailStep(w) == pc[w] = "parse" /\ pc'[w] = "failed"

\* C24: the step on which a request fails at its parse checks leaves the
\* counter as it was, and the request has been handed no nonce: the checks
\* come before the fetch_add call.
C24_ParseFailKeepsNonce ==
    [][\A w \in Workflows :
          /\ ParseFailStep(w) => nonce' = nonce /\ issued'[w] = <<>>
          /\ ~(account_ok'[w] /\ pkey_ok'[w]) => issued'[w] = <<>>
      ]_vars

\* a request has failed at its parse checks after another was handed the
\* counter's present value
C24_Witness ==
    \E v, w \in Workflows :
        /\ pc[w] = "failed" /\ ~account_ok[w] /\ issued[w] = <<>>
        /\ issued[v] # <<>> /\ nonce = issued[v][1]

\* C25: after every step the counter is at least every value fetch_add + 1
\* or retry_nonce has returned to a request and every nonce a transaction
\* was sent with, and no step lowers it: a request that ends in a failure
\* leaves the counter where it was.
C25_CounterCoversIssued ==
    [][/\ nonce' >= nonce
       /\ \A w \in Workflows :
             /\ \A i \in 1..Len(issued'[w]) : issued'[w][i] <= nonce'
             /\ \A i \in 1..Len(attempts'[w]) : attempts'[w][i].nonce <= nonce'
             /\ next_nonce'[w] <= nonce'
             /\ (pc[w] = "awaiting" /\ pc'[w] = "failed") => nonce' = nonce
      ]_vars

\* a request has ended in a failure of the RPC call after a retry, the
\* counter still at the nonce of its last transaction
C25_Witness ==
    \E w \in Workflows :
        /\ pc[w] = "failed"
        /\ Len(attempts[w]) = 2
        /\ Last(outcomes[w]) = "rpc_error"
        /\ nonce = Last(attempts[w]).nonce

\* C26: with requests served one at a time from a counter seeded with the
\* access key's nonce, every transaction is sent with a nonce above the
\* access key's, so the node's verdict on the transaction of a request that
\* waits for it is never InvalidNonce, and a request ends having sent exactly
\* one transaction -- also after requests before it ended in a failed
\* execution or in a failure of the RPC call.
C26_SequentialNoConflict ==
    \A w \in Workflows :
        /\ Len(attempts[w]) <= 1
        /\ Conflicts(w) = 0
        /\ (pc[w] = "awaiting" /\ ~Decided(w)) => Last(attempts[w]).nonce > ledger_ak
        /\ Decided(w) => Last(verdicts[w]).accepted
        /\ pc[w] \in {"done", "failed"} => Len(attempts[w]) = 1

\* a request's transaction has been accepted after the request before it
\* ended in a failure of the RPC call, that one's transaction not yet run
C26_Witness ==
    \E v, w \in Workflows :
        /\ pc[v] = "failed" /\ Last(outcomes[v]) = "rpc_error" /\ verdicts[v] = <<>>
        /\ Decided(w) /\ Last(verdicts[w]).accepted
        /\ Last(attempts[w]).nonce = Last(attempts[v]).nonce + 1

\* C27: over the whole range of Nonce, fetch_add(1) + 1 returns a value above
\* the counter it read, retry_nonce stores and returns a value above the
\* counter it read and above ak_nonce, and neither panics nor wraps around.
C27_NoWrapAround ==
    [][\A w \in Workflows :
          /\ pc'[w] # "panicked"
          /\ AllocateStep(w) => next_nonce'[w] > nonce /\ nonce' > nonce
          /\ UpdateStep(w) => nonce' > nonce /\ nonce' > ak_nonce'[w]
          /\ ReturnStep(w) =>
                next_nonce'[w] > prev_nonce[w] /\ next_nonce'[w] > ak_nonce[w]
      ]_vars
====
